---- MODULE Spec2Model ----
(***************************************************************************)
(* arduino/serial-monitor: the SerialMonitor handler (Configure, Open,     *)
(* Close, getMode) driven by the pluggable-monitor protocol engine         *)
(* (dispatcher, lifecycle machine, TCP bridge, output gate).               *)
(*                                                                         *)
(* The handler is translated from main.go and from the rts/dtr revision    *)
(* of the same file; the protocol engine lives in the imported package     *)
(* pluggable-monitor-protocol-handler and is modelled from spec.md.        *)
(***************************************************************************)
EXTENDS Integers, Sequences, FiniteSets, TLC

\* ------------------------------------------------------------------ bounds
\* number of driver handles serial.Open may hand out in a run of OPEN and
\* CLOSE commands
MaxOpens == 2

\* successful serial.Open calls in the runs with the full command set, in the
\* runs with the wider CONFIGURE inputs, and in the runs under fairness
MaxHandles == 1

\* ------------------------------------------------------- revisions modelled
\* "main" is src/main.go, "rtsdtr" is src/unnamed/part_001
Variants == {"main", "rtsdtr"}

\* ------------------------------------------------------------------ inputs
\* CONFIGURE arguments tried by the client
CfgInputs ==
  { <<"baudrate", "19200">>, <<"baudrate", "123456">>,
    <<"dtr", "off">>, <<"foo", "1">> }

\* values of further parameters a client sends in the runs that look at the
\* driver calls
ModeInputs == {<<"parity", "even">>, <<"rts", "off">>}

\* versions a client requests with HELLO
HelloInputs == {-1, 0, 1, 2, 3}

\* command lines the dispatcher does not serve: an unknown verb, a known verb
\* with malformed arguments
BadLines == {"verb", "args"}

\* the one protocol revision there is
SupportedVersion == 1

Sides == {"p2t", "t2p"}
\* the side a copy loop's error is on
Reasons == {"port", "tcp"}

\* ------------------------------------------------- descriptor (static part)
\* NewSerialMonitor: parameter keys of the descriptor
Keys(var) ==
  IF var = "rtsdtr"
    THEN {"baudrate", "parity", "bits", "stop_bits", "rts", "dtr"}
    ELSE {"baudrate", "parity", "bits", "stop_bits"}

\* NewSerialMonitor: Values of each parameter
Values(var, n) ==
  IF var = "rtsdtr"
    THEN CASE n = "baudrate" ->
                {"300", "600", "750", "1200", "2400", "4800", "9600",
                 "19200", "31250", "38400", "57600", "74880", "115200",
                 "230400", "250000", "460800", "500000", "921600",
                 "1000000", "2000000"}
           [] n = "parity" -> {"none", "even", "odd", "mark", "space"}
           [] n = "bits" -> {"5", "6", "7", "8", "9"}
           [] n = "stop_bits" -> {"1", "1.5", "2"}
           [] n = "rts" -> {"on", "off"}
           [] n = "dtr" -> {"on", "off"}
           [] OTHER -> {}
    ELSE CASE n = "baudrate" ->
                {"300", "600", "750", "1200", "2400", "4800", "9600",
                 "19200", "38400", "57600", "115200", "230400", "460800",
                 "500000", "921600", "1000000", "2000000"}
           [] n = "parity" -> {"N", "E", "O", "M", "S"}
           [] n = "bits" -> {"5", "6", "7", "8", "9"}
           [] n = "stop_bits" -> {"1", "1.5", "2"}
           [] OTHER -> {}

\* NewSerialMonitor: Selected of each parameter after construction
DefaultSelected(var) ==
  [n \in Keys(var) |->
     CASE n = "baudrate" -> "9600"
       [] n = "parity" -> IF var = "rtsdtr" THEN "none" ELSE "N"
       [] n = "bits" -> "8"
       [] n = "stop_bits" -> "1"
       [] OTHER -> "on"]

\* strconv.Atoi on the strings the descriptor can hold; 0 on a parse error
Atoi(s) ==
  CASE s = "300" -> 300 [] s = "600" -> 600 [] s = "750" -> 750
    [] s = "1200" -> 1200 [] s = "2400" -> 2400 [] s = "4800" -> 4800
    [] s = "9600" -> 9600 [] s = "19200" -> 19200 [] s = "31250" -> 31250
    [] s = "38400" -> 38400 [] s = "57600" -> 57600 [] s = "74880" -> 74880
    [] s = "115200" -> 115200 [] s = "230400" -> 230400
    [] s = "250000" -> 250000 [] s = "460800" -> 460800
    [] s = "500000" -> 500000 [] s = "921600" -> 921600
    [] s = "1000000" -> 1000000 [] s = "2000000" -> 2000000
    [] s = "5" -> 5 [] s = "6" -> 6 [] s = "7" -> 7 [] s = "8" -> 8
    [] s = "9" -> 9 [] s = "1" -> 1 [] s = "2" -> 2
    [] OTHER -> 0

\* getMode of main.go: the parity switch
ParityOfMain(s) ==
  CASE s = "N" -> "NoParity" [] s = "E" -> "EvenParity"
    [] s = "O" -> "OddParity" [] s = "M" -> "MarkParity"
    [] s = "S" -> "SpaceParity" [] OTHER -> "NoParity"

\* getMode of the rts/dtr revision: the parity switch (zero value NoParity
\* when no case matches)
ParityOf(s) ==
  CASE s = "None" -> "NoParity" [] s = "Even" -> "EvenParity"
    [] s = "Odd" -> "OddParity" [] s = "Mark" -> "MarkParity"
    [] s = "Space" -> "SpaceParity" [] OTHER -> "NoParity"

\* getMode: the stop_bits switch (zero value OneStopBit)
StopBitsOf(s) ==
  CASE s = "1" -> "OneStopBit" [] s = "1.5" -> "OnePointFiveStopBits"
    [] s = "2" -> "TwoStopBits" [] OTHER -> "OneStopBit"

\* getDTR / getRTS
getDTR(sel) == sel["dtr"] = "on"
getRTS(sel) == sel["rts"] = "on"

\* getMode: the serial.Mode built from the selected values; main.go leaves
\* InitialStatusBits nil ("default" lines)
getMode(var, sel) ==
  IF var = "rtsdtr"
    THEN [baud |-> Atoi(sel["baudrate"]), parity |-> ParityOf(sel["parity"]),
          bits |-> Atoi(sel["bits"]), stop |-> StopBitsOf(sel["stop_bits"]),
          dtr |-> IF getDTR(sel) THEN "on" ELSE "off",
          rts |-> IF getRTS(sel) THEN "on" ELSE "off"]
    ELSE [baud |-> Atoi(sel["baudrate"]),
          parity |-> ParityOfMain(sel["parity"]),
          bits |-> Atoi(sel["bits"]), stop |-> StopBitsOf(sel["stop_bits"]),
          dtr |-> "default", rts |-> "default"]

\* ------------------------------------------------------------------- state
VARIABLES
  variant,     \* which revision of the handler runs
  selected,    \* serialSettings.ConfigurationParameter[n].Selected
  openedPort,  \* SerialMonitor.openedPort
  serialPort,  \* SerialMonitor.serialPort: a driver handle, 0 is nil
  ports,       \* driver side: one record per handle serial.Open returned
  state,       \* Session state of the lifecycle machine
  clientConn,  \* TCP connection of the open session, 0 is none
  sess,        \* one record per successful OPEN: handles, guard, copy loops
  dpc,         \* position of the dispatcher
  pend,        \* locals of a Configure that is past its validation
  resp,        \* the response the dispatcher is about to write
  gate,        \* owner of the output gate
  out,         \* output written since it last ended with a complete message
  last,        \* the command being handled: arguments, pre-state, result
  calls,       \* driver calls made since the dispatcher last moved on
  version,     \* Session: the negotiated protocol version, 0 before HELLO
  faulty,      \* driver: Close and Reset*Buffer return an error on this run
  committed    \* history: per parameter, the value of the last Configure
               \* that returned nil, the default when there was none

vars == << variant, selected, openedPort, serialPort, ports, state,
           clientConn, sess, dpc, pend, resp, gate, out, last, calls,
           version, faulty, committed >>

NoWriter == [k |-> "free", e |-> 0]
Disp == [k |-> "disp", e |-> 0]
LoopWriter(e, s) == [k |-> s, e |-> e]

NoMsg == [ev |-> "none", err |-> "", ep |-> 0]
NoPend == [name |-> "", old |-> ""]

NoCmd ==
  [cmd |-> "none", name |-> "", value |-> "",
   preSel |-> DefaultSelected(variant),
   preOpened |-> FALSE, prePort |-> 0, preState |-> "Closed", preConn |-> 0,
   preSess |-> 0, openOk |-> FALSE, dialOk |-> FALSE, applyOk |-> FALSE,
   newPort |-> 0, result |-> "none", req |-> 0]

\* driver: a closed handle has no line settings any more
NoMode == [baud |-> 0, parity |-> "NoParity", bits |-> 0, stop |-> "OneStopBit",
           dtr |-> "released", rts |-> "released"]

\* a handle that serial.Open returned and Close was never called on
Live(ps, h) == h \in 1..Len(ps) /\ ps[h].closes = 0

\* NewSerialMonitor, and the process before the first command line, with a
\* driver of either kind
InitAny ==
  /\ variant \in Variants
  /\ selected = DefaultSelected(variant)
  /\ openedPort = FALSE
  /\ serialPort = 0
  /\ ports = << >>
  /\ state = "Closed"
  /\ clientConn = 0
  /\ sess = << >>
  /\ dpc = "idle"
  /\ pend = NoPend
  /\ resp = NoMsg
  /\ gate = NoWriter
  /\ out = << >>
  /\ last = NoCmd
  /\ calls = << >>
  /\ version = 0
  /\ faulty \in BOOLEAN
  /\ committed = DefaultSelected(variant)

\* the runs in which every driver call on a live handle can succeed
Init == InitAny /\ ~faulty

\* ---------------------------------------------------------------- handler
\* Configure without the check of the value against parameter.Values
ConfigureCheckNoValue(n, v) ==
  IF n \notin DOMAIN selected THEN "ParameterNotFound" ELSE ""

\* Configure: lookup of the parameter and check of the value
ConfigureCheck(n, v) ==
  IF n \notin DOMAIN selected THEN "ParameterNotFound"
  ELSE IF v \notin Values(variant, n) THEN "InvalidValue"
  ELSE ""

\* Configure that applies every parameter with SetMode
ApplyCallModeOnly(n) == "SetMode"

\* a switch without the case "rts"
ApplyCallNoRTS(n) ==
  CASE n \in {"baudrate", "parity", "bits", "stop_bits"} -> "SetMode"
    [] n = "dtr" -> "SetDTR"
    [] OTHER -> "panic"

\* Configure: the driver call chosen by the switch on parameterName
ApplyCall(n) ==
  CASE n \in {"baudrate", "parity", "bits", "stop_bits"} -> "SetMode"
    [] n = "dtr" -> "SetDTR"
    [] n = "rts" -> "SetRTS"
    [] OTHER -> "panic"

\* a Configure that selects the value for every parameter that allows it
StageByValue(sel, n, v) ==
  [m \in DOMAIN sel |-> IF v \in Values(variant, m) THEN v ELSE sel[m]]

\* Configure: "Set configuration", parameter.Selected = value
Stage(sel, n, v) == [sel EXCEPT ![n] = v]

\* Configure of main.go: always SetMode
ApplyCallMain(n) == "SetMode"

\* Configure without the rollback of the staged value
RollbackNone(sel, n, old) == sel

\* Configure: "If configuration failed, rollback settings"
Rollback(sel, n, old) == [sel EXCEPT ![n] = old]

\* Configure: the argument of the driver call, built from the staged values
CallArg(op, sel) ==
  CASE op = "SetMode" -> [k |-> "mode", mode |-> getMode(variant, sel), on |-> FALSE]
    [] op = "SetDTR" -> [k |-> "dtr", mode |-> NoMode, on |-> getDTR(sel)]
    [] OTHER -> [k |-> "rts", mode |-> NoMode, on |-> getRTS(sel)]

\* driver: what SetMode / SetDTR / SetRTS change on a handle
DriverApply(ps, h, op, sel) ==
  LET m == getMode(variant, sel) IN
  CASE op = "SetMode" ->
         [ps EXCEPT ![h].mode = [@ EXCEPT !.baud = m.baud,
                                          !.parity = m.parity,
                                          !.bits = m.bits,
                                          !.stop = m.stop]]
    [] op = "SetDTR" ->
         [ps EXCEPT ![h].mode.dtr = IF getDTR(sel) THEN "on" ELSE "off"]
    [] op = "SetRTS" ->
         [ps EXCEPT ![h].mode.rts = IF getRTS(sel) THEN "on" ELSE "off"]
    [] OTHER -> ps

\* Hello that refuses a version above the one it knows
HelloRejects(protocol) == IF protocol > SupportedVersion THEN "BadVersion" ELSE ""

\* Hello: returns nil whatever the client asks for
Hello(protocol) == ""

\* Describe that returns the descriptor as it was constructed
DescribeDefaults == DefaultSelected(variant)

\* Describe: returns d.serialSettings, here its selected values
Describe == selected

\* Open without the "port already opened" check
OpenNoCheck(openOk) ==
  IF ~openOk
    THEN [err |-> "OpenFailed", openedPort |-> openedPort,
          serialPort |-> serialPort, ports |-> ports,
          calls |-> << [op |-> "Open", h |-> 0, live |-> FALSE] >>]
  ELSE LET h == Len(ports) + 1 IN
       [err |-> "", openedPort |-> TRUE, serialPort |-> h,
        ports |-> Append(ports, [closes |-> 0,
                                 mode |-> getMode(variant, selected),
                                 resets |-> 0]),
        calls |-> << [op |-> "Open", h |-> h, live |-> TRUE] >>]

\* Open that returns the new handle without recording it in the handler
OpenShadowed(openOk) ==
  IF openedPort
    THEN [err |-> "AlreadyOpen", openedPort |-> openedPort,
          serialPort |-> serialPort, ports |-> ports, calls |-> << >>]
  ELSE IF ~openOk
    THEN [err |-> "OpenFailed", openedPort |-> openedPort,
          serialPort |-> serialPort, ports |-> ports,
          calls |-> << [op |-> "Open", h |-> 0, live |-> FALSE] >>]
  ELSE LET h == Len(ports) + 1 IN
       [err |-> "", openedPort |-> openedPort, serialPort |-> h,
        ports |-> Append(ports, [closes |-> 0,
                                 mode |-> getMode(variant, selected),
                                 resets |-> 0]),
        calls |-> << [op |-> "Open", h |-> h, live |-> TRUE] >>]

\* Open that returns the error of a buffer reset
OpenResetChecked(openOk) ==
  IF openedPort
    THEN [err |-> "AlreadyOpen", openedPort |-> openedPort,
          serialPort |-> serialPort, ports |-> ports, calls |-> << >>]
  ELSE IF ~openOk
    THEN [err |-> "OpenFailed", openedPort |-> openedPort,
          serialPort |-> serialPort, ports |-> ports,
          calls |-> << [op |-> "Open", h |-> 0, live |-> FALSE] >>]
  ELSE LET h == Len(ports) + 1
           rs == IF variant = "rtsdtr"
                   THEN << [op |-> "ResetInputBuffer", h |-> h, live |-> TRUE,
                            ok |-> ~faulty] >>
                   ELSE << >>
       IN IF variant = "rtsdtr" /\ faulty
            THEN [err |-> "ResetFailed", openedPort |-> openedPort,
                  serialPort |-> serialPort, ports |-> ports,
                  calls |-> << [op |-> "Open", h |-> h, live |-> TRUE] >> \o rs]
            ELSE [err |-> "", openedPort |-> TRUE, serialPort |-> h,
                  ports |-> Append(ports, [closes |-> 0,
                                           mode |-> getMode(variant, selected),
                                           resets |-> 2 * Len(rs)]),
                  calls |-> << [op |-> "Open", h |-> h, live |-> TRUE] >> \o rs
                              \o (IF rs = << >> THEN << >>
                                   ELSE << [op |-> "ResetOutputBuffer", h |-> h,
                                            live |-> TRUE, ok |-> TRUE] >>)]

\* Open: the handler's OPEN; openOk is the outcome of serial.Open
Open(openOk) ==
  IF openedPort
    THEN [err |-> "AlreadyOpen", openedPort |-> openedPort,
          serialPort |-> serialPort, ports |-> ports, calls |-> << >>]
  ELSE IF ~openOk
    THEN [err |-> "OpenFailed", openedPort |-> openedPort,
          serialPort |-> serialPort, ports |-> ports,
          calls |-> << [op |-> "Open", h |-> 0, live |-> FALSE] >>]
  ELSE LET h == Len(ports) + 1
           rs == IF variant = "rtsdtr"
                   THEN << [op |-> "ResetInputBuffer", h |-> h, live |-> TRUE,
                            ok |-> ~faulty],
                           [op |-> "ResetOutputBuffer", h |-> h, live |-> TRUE,
                            ok |-> ~faulty] >>
                   ELSE << >>
       IN [err |-> "", openedPort |-> TRUE, serialPort |-> h,
           ports |-> Append(ports, [closes |-> 0,
                                    mode |-> getMode(variant, selected),
                                    resets |-> Len(rs)]),
           calls |-> << [op |-> "Open", h |-> h, live |-> TRUE] >> \o rs]

\* Close that leaves d.openedPort set
CloseKeepFlag(op, sp, ps) ==
  IF ~op
    THEN [err |-> "AlreadyClosed", openedPort |-> op, serialPort |-> sp,
          ports |-> ps, calls |-> << >>]
    ELSE [err |-> "", openedPort |-> op, serialPort |-> sp,
          ports |-> IF sp \in 1..Len(ps)
                      THEN [ps EXCEPT ![sp].closes = @ + 1, ![sp].mode = NoMode]
                      ELSE ps,
          calls |-> << [op |-> "Close", h |-> sp, live |-> Live(ps, sp)] >>]

\* Close that clears d.openedPort without closing the handle
CloseNoDriver(op, sp, ps) ==
  IF ~op
    THEN [err |-> "AlreadyClosed", openedPort |-> op, serialPort |-> sp,
          ports |-> ps, calls |-> << >>]
    ELSE [err |-> "", openedPort |-> FALSE, serialPort |-> sp,
          ports |-> ps, calls |-> << >>]

\* Close that returns the driver's error before it clears d.openedPort
CloseReturnsError(op, sp, ps) ==
  IF ~op
    THEN [err |-> "AlreadyClosed", openedPort |-> op, serialPort |-> sp,
          ports |-> ps, calls |-> << >>]
    ELSE [err |-> IF faulty THEN "CloseFailed" ELSE "",
          openedPort |-> faulty, serialPort |-> sp,
          ports |-> IF sp \in 1..Len(ps)
                      THEN [ps EXCEPT ![sp].closes = @ + 1, ![sp].mode = NoMode]
                      ELSE ps,
          calls |-> << [op |-> "Close", h |-> sp, live |-> Live(ps, sp),
                        ok |-> Live(ps, sp) /\ ~faulty] >>]

\* Close: the handler's CLOSE, on handler state (op, sp) and driver state ps
Close(op, sp, ps) ==
  IF ~op
    THEN [err |-> "AlreadyClosed", openedPort |-> op, serialPort |-> sp,
          ports |-> ps, calls |-> << >>]
    ELSE [err |-> "", openedPort |-> FALSE, serialPort |-> sp,
          ports |-> IF sp \in 1..Len(ps)
                      THEN [ps EXCEPT ![sp].closes = @ + 1, ![sp].mode = NoMode]
                      ELSE ps,
          calls |-> << [op |-> "Close", h |-> sp, live |-> Live(ps, sp),
                         ok |-> Live(ps, sp) /\ ~faulty] >>]

\* ------------------------------------------------- protocol engine (spec.md)
\* 4.3 (d): the session record created by a successful OPEN
NewSession(h) ==
  [port |-> h, connCloses |-> 0, closing |-> FALSE, closedBy |-> "none",
   reason |-> "", cause |-> "", events |-> 0,
   loop |-> [s \in Sides |-> "running"]]

\* a guard that every path gets
GuardBroken(e) == TRUE

\* a guard kept for the process, not for the session: free while a session
\* is open
GuardOfProcess(e) == clientConn # 0

\* 4.3 / 5: the single-shot "already closing" guard of session e
GuardFree(e) == ~sess[e].closing

\* a gate that never makes a writer wait
GateOpen == TRUE

\* 4.5: the output gate is free
GateFree == gate = NoWriter

\* 4.3: the teardown of session e by path "close" or "bridge": take the
\* guard, close the TCP connection, close the port through the handler
Teardown(e, by, why) ==
  [sess |-> [sess EXCEPT ![e].closing = TRUE, ![e].closedBy = by,
                         ![e].reason = why, ![e].connCloses = @ + 1],
   h |-> Close(openedPort, serialPort, ports)]

\* a report that names the loop's source instead of the handle that failed
ReasonOfLoop(s, r) == IF s = "p2t" THEN "port" ELSE "tcp"

\* 4.3 / 4.4: the side the Bridge reports when loop s got an error on handle
\* r: the side that failed
ReasonOf(s, r) == r

\* the message of port_closed for each side
PortClosedMessage(r) ==
  IF r = "port" THEN "serial port disappeared!"
                ELSE "lost TCP/IP connection with the client!"

\* 4.3 / 6: the port_closed event of session e
PortClosed(e) ==
  [ev |-> "port_closed", err |-> PortClosedMessage(sess[e].reason), ep |-> e]

\* one JSON message, written in two parts by writer w
Part(w, m, part) == [w |-> w, ev |-> m.ev, err |-> m.err, ep |-> m.ep, part |-> part]

Msg(ev, err) == [ev |-> ev, err |-> err, ep |-> clientConn]

\* a dispatcher that reads the next line while a response is still to write
CanReadEarly == dpc \in {"idle", "respond"}

\* 4.1: the dispatcher reads the next line when the handler has returned
CanRead == dpc = "idle"

\* the output channel after writer w has written the end of message m: when
\* everything before it is complete messages, they are forgotten
Written(w, m) ==
  IF out = << Part(w, m, "begin") >>
    THEN << >> ELSE Append(out, Part(w, m, "end"))

\* a dispatcher that stops at every command it does not serve
AfterResponseStrict(c) == IF c \in {"QUIT", "UNKNOWN"} THEN "exited" ELSE "idle"

\* 4.1 / 4.3: after QUIT's response the process terminates, after every
\* other response the dispatcher reads the next line
AfterResponse(c) == IF c = "QUIT" THEN "exited" ELSE "idle"

\* 4.1 HELLO: min(requested, highest version this engine supports)
Negotiate(r) == IF r < SupportedVersion THEN r ELSE SupportedVersion

\* the command just read, with the state it was read in
Begin(c, n, v, oo, dd) ==
  [cmd |-> c, name |-> n, value |-> v, preSel |-> selected,
   preOpened |-> openedPort, prePort |-> serialPort, preState |-> state,
   preConn |-> clientConn, preSess |-> Len(sess), openOk |-> oo,
   dialOk |-> dd, applyOk |-> FALSE, newPort |-> 0, result |-> "pending",
   req |-> 0]

\* --------------------------------------------------------------- CONFIGURE
\* Configure up to the read of d.openedPort: validate, stage the value, and
\* return at once when the port is not open
CmdConfigure(n, v) ==
  /\ CanRead
  /\ calls' = << >>
  /\ LET e == ConfigureCheck(n, v) IN
       IF e # ""
         THEN /\ selected' = selected
              /\ committed' = committed
              /\ dpc' = "respond"
              /\ pend' = pend
              /\ resp' = Msg("configure", e)
              /\ last' = [Begin("CONFIGURE", n, v, FALSE, FALSE) EXCEPT !.result = e]
         ELSE /\ selected' = Stage(selected, n, v)
              /\ IF openedPort
                   THEN /\ dpc' = "apply"
                        /\ committed' = committed
                        /\ pend' = [name |-> n, old |-> selected[n]]
                        /\ resp' = resp
                        /\ last' = Begin("CONFIGURE", n, v, FALSE, FALSE)
                   ELSE /\ dpc' = "respond"
                        /\ committed' = [committed EXCEPT ![n] = v]
                        /\ pend' = pend
                        /\ resp' = Msg("configure", "")
                        /\ last' = [Begin("CONFIGURE", n, v, FALSE, FALSE) EXCEPT !.result = "OK"]
  /\ UNCHANGED << variant, version, faulty, openedPort, serialPort, ports, state, clientConn,
                  sess, gate, out >>

\* Configure from the driver call on d.serialPort to the return: ok is the
\* outcome the driver gives on a live handle; a closed handle gives an error
CfgApply(ok) ==
  /\ dpc = "apply"
  /\ LET op == IF variant = "main" THEN ApplyCallMain(pend.name)
                                   ELSE ApplyCall(pend.name)
         h == serialPort
         good == ok /\ Live(ports, h)
     IN IF op = "panic"
          THEN /\ dpc' = "panicked"
               /\ UNCHANGED << selected, committed, ports, resp, last, calls >>
          ELSE /\ dpc' = "respond"
               /\ calls' = Append(calls, [op |-> op, h |-> h, live |-> Live(ports, h),
                                          arg |-> CallArg(op, selected)])
               /\ committed' = IF good THEN [committed EXCEPT ![pend.name] = last.value]
                                ELSE committed
               /\ ports' = IF good THEN DriverApply(ports, h, op, selected) ELSE ports
               /\ selected' = IF good THEN selected
                              ELSE Rollback(selected, pend.name, pend.old)
               /\ resp' = Msg("configure", IF good THEN "" ELSE "ApplyFailed")
               /\ last' = [last EXCEPT !.result = IF good THEN "OK" ELSE "ApplyFailed",
                                       !.applyOk = good]
  /\ pend' = NoPend
  /\ UNCHANGED << variant, version, faulty, openedPort, serialPort, state, clientConn, sess,
                  gate, out >>

\* -------------------------------------------------------------------- OPEN
\* 4.3 OPEN: (a)(b) the handler's Open, (c) the TCP dial, closing the port
\* again when the dial fails, (d) the new session and its two copy loops
CmdOpen(openOk, dialOk) ==
  /\ CanRead
  /\ openedPort \/ ~openOk \/ Len(ports) < MaxOpens
  /\ LET r == Open(openOk) IN
       IF r.err # ""
         THEN /\ UNCHANGED << openedPort, serialPort, ports, state, clientConn, sess >>
              /\ calls' = r.calls
              /\ resp' = Msg("open", r.err)
              /\ last' = [Begin("OPEN", "", "", openOk, dialOk) EXCEPT !.result = r.err]
       ELSE IF ~dialOk
         THEN LET c == Close(r.openedPort, r.serialPort, r.ports) IN
              /\ openedPort' = c.openedPort
              /\ serialPort' = c.serialPort
              /\ ports' = c.ports
              /\ calls' = r.calls \o c.calls
              /\ UNCHANGED << state, clientConn, sess >>
              /\ resp' = Msg("open", "ConnectFailed")
              /\ last' = [Begin("OPEN", "", "", openOk, dialOk)
                            EXCEPT !.result = "ConnectFailed", !.newPort = r.serialPort]
         ELSE /\ openedPort' = r.openedPort
              /\ serialPort' = r.serialPort
              /\ ports' = r.ports
              /\ calls' = r.calls
              /\ sess' = Append(sess, NewSession(r.serialPort))
              /\ clientConn' = Len(sess) + 1
              /\ state' = "Open"
              /\ resp' = [ev |-> "open", err |-> "", ep |-> Len(sess) + 1]
              /\ last' = [Begin("OPEN", "", "", openOk, dialOk)
                            EXCEPT !.result = "OK", !.newPort = r.serialPort]
  /\ dpc' = "respond"
  /\ UNCHANGED << variant, version, faulty, committed, selected, pend, gate, out >>

\* ------------------------------------------------------------------- CLOSE
\* 4.3 CLOSE: AlreadyClosed from Closed; from Open the teardown, when this
\* path gets the guard
CmdClose ==
  /\ CanRead
  /\ IF state = "Closed" \/ ~GuardFree(clientConn)
       THEN /\ UNCHANGED << openedPort, serialPort, ports, state, clientConn, sess >>
            /\ calls' = << >>
            /\ resp' = Msg("close", "AlreadyClosed")
            /\ last' = [Begin("CLOSE", "", "", FALSE, FALSE) EXCEPT !.result = "AlreadyClosed"]
       ELSE LET t == Teardown(clientConn, "close", "") IN
            /\ sess' = t.sess
            /\ openedPort' = t.h.openedPort
            /\ serialPort' = t.h.serialPort
            /\ ports' = t.h.ports
            /\ calls' = t.h.calls
            /\ state' = "Closed"
            /\ clientConn' = 0
            /\ resp' = Msg("close", "")
            /\ last' = [Begin("CLOSE", "", "", FALSE, FALSE) EXCEPT !.result = "OK"]
  /\ dpc' = "respond"
  /\ UNCHANGED << variant, version, faulty, committed, selected, pend, gate, out >>

\* ------------------------------------------------------------------- HELLO
\* 4.1 HELLO: negotiate the version, call the handler's Hello, record the
\* version on the Session and answer with it
CmdHello(r) ==
  /\ CanRead
  /\ LET e == Hello(r) IN
       /\ version' = IF e = "" THEN Negotiate(r) ELSE version
       /\ resp' = [ev |-> "hello", err |-> e, ep |-> clientConn,
                   ver |-> IF e = "" THEN Negotiate(r) ELSE 0]
       /\ last' = [Begin("HELLO", "", "", FALSE, FALSE)
                     EXCEPT !.result = IF e = "" THEN "OK" ELSE e, !.req = r]
  /\ calls' = << >>
  /\ dpc' = "respond"
  /\ UNCHANGED << variant, faulty, committed, selected, openedPort, serialPort,
                  ports, state, clientConn, sess, pend, gate, out >>

\* ---------------------------------------------------------------- DESCRIBE
\* 4.1 DESCRIBE: the response carries what the handler's Describe returns
CmdDescribe ==
  /\ CanRead
  /\ resp' = [ev |-> "describe", err |-> "", ep |-> clientConn, desc |-> Describe]
  /\ last' = [Begin("DESCRIBE", "", "", FALSE, FALSE) EXCEPT !.result = "OK"]
  /\ calls' = << >>
  /\ dpc' = "respond"
  /\ UNCHANGED << variant, version, faulty, committed, selected, openedPort,
                  serialPort, ports, state, clientConn, sess, pend, gate, out >>

\* -------------------------------------------------------------------- QUIT
\* 4.3 QUIT: from Open the teardown of CLOSE, when this path gets the guard,
\* without a response of its own; the handler's Quit is empty; then the quit
\* event
CmdQuit ==
  /\ CanRead
  /\ IF state = "Closed" \/ ~GuardFree(clientConn)
       THEN /\ UNCHANGED << openedPort, serialPort, ports, state, clientConn, sess >>
            /\ calls' = << >>
       ELSE LET t == Teardown(clientConn, "quit", "") IN
            /\ sess' = t.sess
            /\ openedPort' = t.h.openedPort
            /\ serialPort' = t.h.serialPort
            /\ ports' = t.h.ports
            /\ calls' = t.h.calls
            /\ state' = "Closed"
            /\ clientConn' = 0
  /\ resp' = Msg("quit", "")
  /\ last' = [Begin("QUIT", "", "", FALSE, FALSE) EXCEPT !.result = "OK"]
  /\ dpc' = "respond"
  /\ UNCHANGED << variant, version, faulty, committed, selected, pend, gate, out >>

\* ---------------------------------------------------------- invalid commands
\* 4.1 / 7: a line the dispatcher does not serve gets a command_error event
CmdUnknown(k) ==
  /\ CanRead
  /\ resp' = Msg("command_error", IF k = "verb" THEN "NotSupported"
                                                ELSE "InvalidArguments")
  /\ last' = [Begin("UNKNOWN", k, "", FALSE, FALSE) EXCEPT !.result = "ProtocolError"]
  /\ calls' = << >>
  /\ dpc' = "respond"
  /\ UNCHANGED << variant, version, faulty, committed, selected, openedPort,
                  serialPort, ports, state, clientConn, sess, pend, gate, out >>

\* ------------------------------------------------------------ the response
\* 4.5: the dispatcher takes the gate and starts writing its response
DispBegin ==
  /\ dpc = "respond"
  /\ GateFree
  /\ gate' = Disp
  /\ out' = Append(out, Part(Disp, resp, "begin"))
  /\ dpc' = "writing"
  /\ UNCHANGED << variant, version, faulty, committed, selected, openedPort, serialPort, ports, state,
                  clientConn, sess, pend, resp, last, calls >>

\* 4.5: the dispatcher completes the message and releases the gate; 4.1: it
\* then reads the next line
DispEnd ==
  /\ dpc = "writing"
  /\ gate' = NoWriter
  /\ out' = Written(Disp, resp)
  /\ dpc' = AfterResponse(last.cmd)
  /\ resp' = NoMsg
  /\ last' = NoCmd
  /\ calls' = << >>
  /\ UNCHANGED << variant, version, faulty, committed, selected, openedPort, serialPort, ports, state,
                  clientConn, sess, pend >>

\* ------------------------------------------------------------------ bridge
\* 4.4 / 4.3 implicit Closed transition: a copy loop of session e gets a
\* read or write error on side r and signals the lifecycle machine; with the
\* guard it tears the session down and has a port_closed event to write,
\* without it it terminates
LoopFail(e, s, r) ==
  /\ e \in 1..Len(sess)
  /\ sess[e].loop[s] = "running"
  /\ IF GuardFree(e)
       THEN LET t == Teardown(e, "bridge", ReasonOf(s, r)) IN
            /\ sess' = [t.sess EXCEPT ![e].loop[s] = "emit", ![e].cause = r]
            /\ openedPort' = t.h.openedPort
            /\ serialPort' = t.h.serialPort
            /\ ports' = t.h.ports
            /\ calls' = calls \o t.h.calls
            /\ state' = "Closed"
            /\ clientConn' = 0
       ELSE /\ sess' = [sess EXCEPT ![e].loop[s] = "done"]
            /\ UNCHANGED << openedPort, serialPort, ports, calls, state, clientConn >>
  /\ UNCHANGED << variant, version, faulty, committed, selected, dpc, pend, resp, gate, out, last >>

\* 4.5: the bridge path takes the gate and starts writing port_closed
LoopBegin(e, s) ==
  /\ e \in 1..Len(sess)
  /\ sess[e].loop[s] = "emit"
  /\ GateFree
  /\ gate' = LoopWriter(e, s)
  /\ out' = Append(out, Part(LoopWriter(e, s), PortClosed(e), "begin"))
  /\ sess' = [sess EXCEPT ![e].loop[s] = "writing", ![e].events = @ + 1]
  /\ UNCHANGED << variant, version, faulty, committed, selected, openedPort, serialPort, ports, state,
                  clientConn, dpc, pend, resp, last, calls >>

\* 4.5: the bridge path completes port_closed and releases the gate
LoopEnd(e, s) ==
  /\ e \in 1..Len(sess)
  /\ sess[e].loop[s] = "writing"
  /\ gate' = NoWriter
  /\ out' = Written(LoopWriter(e, s), PortClosed(e))
  /\ sess' = [sess EXCEPT ![e].loop[s] = "done"]
  /\ UNCHANGED << variant, version, faulty, committed, selected, openedPort, serialPort, ports, state,
                  clientConn, dpc, pend, resp, last, calls >>

\* ------------------------------------------------------------ specification
\* OPEN and CLOSE with the copy loops of up to MaxOpens sessions
Next ==
  \/ \E oo \in BOOLEAN, dd \in BOOLEAN : CmdOpen(oo, dd)
  \/ CmdClose
  \/ DispBegin
  \/ DispEnd
  \/ \E e \in 1..MaxOpens, s \in Sides, r \in Reasons : LoopFail(e, s, r)
  \/ \E e \in 1..MaxOpens, s \in Sides : LoopBegin(e, s)
  \/ \E e \in 1..MaxOpens, s \in Sides : LoopEnd(e, s)

Spec == Init /\ [][Next]_vars

\* the process has not terminated
Running == dpc # "exited"

\* OPEN in a run that makes at most cap successful serial.Open calls
OpenWithin(cap, openOk, dialOk) ==
  /\ openedPort \/ ~openOk \/ Len(ports) < cap
  /\ CmdOpen(openOk, dialOk)

\* the copy loops of the sessions of a run with at most cap handles; they end
\* with the process
Bridge(cap) ==
  /\ Running
  /\ \/ \E e \in 1..cap, s \in Sides, r \in Reasons : LoopFail(e, s, r)
     \/ \E e \in 1..cap, s \in Sides : LoopBegin(e, s)
     \/ \E e \in 1..cap, s \in Sides : LoopEnd(e, s)

\* every command of the protocol
NextProto ==
  \/ \E r \in HelloInputs : CmdHello(r)
  \/ CmdDescribe
  \/ \E c \in CfgInputs : CmdConfigure(c[1], c[2])
  \/ \E ok \in BOOLEAN : CfgApply(ok)
  \/ \E oo \in BOOLEAN, dd \in BOOLEAN : OpenWithin(MaxHandles, oo, dd)
  \/ CmdClose
  \/ CmdQuit
  \/ \E k \in BadLines : CmdUnknown(k)
  \/ DispBegin
  \/ DispEnd
  \/ Bridge(MaxHandles)

SpecProto == Init /\ [][NextProto]_vars

\* CONFIGURE of every kind of parameter, OPEN and CLOSE, on a driver whose
\* Close and Reset*Buffer calls may fail
NextDriver ==
  \/ \E c \in CfgInputs \cup ModeInputs : CmdConfigure(c[1], c[2])
  \/ \E ok \in BOOLEAN : CfgApply(ok)
  \/ \E oo \in BOOLEAN, dd \in BOOLEAN : OpenWithin(MaxHandles, oo, dd)
  \/ CmdClose
  \/ DispBegin
  \/ DispEnd
  \/ Bridge(MaxHandles)

SpecDriver == InitAny /\ [][NextDriver]_vars

\* CONFIGURE, OPEN and CLOSE with the copy loops, for the runs under fairness
NextLive ==
  \/ \E c \in CfgInputs : CmdConfigure(c[1], c[2])
  \/ \E ok \in BOOLEAN : CfgApply(ok)
  \/ \E oo \in BOOLEAN, dd \in BOOLEAN : OpenWithin(MaxHandles, oo, dd)
  \/ CmdClose
  \/ DispBegin
  \/ DispEnd
  \/ Bridge(MaxHandles)

\* 5: closing the handle a copy loop reads from makes its outstanding read
\* fail: the port for the port-to-TCP loop, the connection for the other
LoopUnblocked(e, s) ==
  /\ e \in 1..Len(sess)
  /\ IF s = "p2t" THEN ~Live(ports, sess[e].port) ELSE sess[e].connCloses > 0
  /\ \E r \in Reasons : LoopFail(e, s, r)

\* the scheduler runs every task that stays ready: the dispatcher writing its
\* response, a copy loop whose source was closed, a writer at the gate
Fairness ==
  /\ WF_vars(DispBegin)
  /\ WF_vars(DispEnd)
  /\ \A e \in 1..MaxHandles : \A s \in Sides :
       /\ WF_vars(LoopUnblocked(e, s))
       /\ WF_vars(LoopBegin(e, s))
       /\ WF_vars(LoopEnd(e, s))

SpecLive == Init /\ [][NextLive]_vars /\ Fairness

\* ------------------------------------------------------------------ claims
\* the handler of the command in `last` has returned; its response is not
\* completely written yet
Returned == dpc \in {"respond", "writing"}

\* handles serial.Open returned that were never closed
LivePorts == {h \in 1..Len(ports) : ports[h].closes = 0}

\* TCP connections that were never closed
LiveConns == {e \in 1..Len(sess) : sess[e].connCloses = 0}

\* the writers that are in the middle of a message
Writing ==
  (IF dpc = "writing" THEN {Disp} ELSE {})
    \cup {w \in {LoopWriter(e, s) : e \in 1..Len(sess), s \in Sides} :
            sess[w.e].loop[w.k] = "writing"}

\* C1: a Configure(n, v) that has returned left selected[n] = v, and reported
\* success, if and only if n is a key of the descriptor, v is one of n's
\* values and either the session was Closed or the live apply succeeded; in
\* every other case the descriptor is the one before the call and an error is
\* reported
C1_ConfigureIffValidAndApplied ==
  (Returned /\ last.cmd = "CONFIGURE") =>
    LET n == last.name
        v == last.value
        good == /\ n \in Keys(variant)
                /\ v \in Values(variant, n)
                /\ (last.preState = "Closed" \/ last.applyOk)
    IN IF good
         THEN /\ selected = [last.preSel EXCEPT ![n] = v]
              /\ last.result = "OK"
              /\ resp = [ev |-> "configure", err |-> "", ep |-> resp.ep]
         ELSE /\ selected = last.preSel
              /\ last.result \in {"ParameterNotFound", "InvalidValue", "ApplyFailed"}
              /\ resp.ev = "configure" /\ resp.err = last.result

\* C1 witness: a Configure of baudrate on the open port whose live apply
\* failed has returned, the value it staged differing from the prior one
C1_Witness ==
  /\ dpc = "respond"
  /\ last.cmd = "CONFIGURE" /\ last.name = "baudrate"
  /\ last.result = "ApplyFailed"
  /\ last.preState = "Open"
  /\ last.preSel["baudrate"] # last.value

\* C2: per Open session the port handle and the TCP connection are closed
\* exactly once: not at all before the teardown, once from the teardown on,
\* whichever of CLOSE and the two copy loops got there first
C2_ClosedExactlyOnce ==
  \A e \in 1..Len(sess) :
    IF sess[e].closing
      THEN sess[e].connCloses = 1 /\ ports[sess[e].port].closes = 1
      ELSE sess[e].connCloses = 0 /\ ports[sess[e].port].closes = 0

\* C2 witness: CLOSE tore a session down and both of its copy loops failed
\* and found the guard taken
C2_Witness ==
  \E e \in 1..Len(sess) :
    /\ sess[e].closedBy = "close"
    /\ \A s \in Sides : sess[e].loop[s] = "done"

\* C3: a session torn down by a Bridge failure gets exactly one port_closed
\* event (none twice; one once its loops are done), is left Closed with the
\* handler's opened flag cleared, and an OPEN read after it, with a working
\* port and listener, is not rejected and succeeds
C3_DisconnectOnceThenReopen ==
  /\ \A e \in 1..Len(sess) :
       /\ sess[e].events <= 1
       /\ (sess[e].closedBy = "bridge" /\ \A s \in Sides : sess[e].loop[s] = "done")
            => sess[e].events = 1
       /\ (sess[e].closedBy = "bridge" /\ e = Len(sess))
            => (state = "Closed" /\ ~openedPort /\ clientConn = 0)
  /\ ( /\ Returned /\ last.cmd = "OPEN"
       /\ last.preSess >= 1 /\ last.preState = "Closed"
       /\ sess[last.preSess].closedBy = "bridge" )
       => /\ last.result # "AlreadyOpen"
          /\ (last.openOk /\ last.dialOk) => last.result = "OK"

\* C3 witness: an OPEN has succeeded after the session before it was torn
\* down by a Bridge failure and its one port_closed event was written
C3_Witness ==
  /\ Returned /\ last.cmd = "OPEN" /\ last.result = "OK"
  /\ last.preSess >= 1
  /\ sess[last.preSess].closedBy = "bridge"
  /\ sess[last.preSess].events = 1
  /\ \A s \in Sides : sess[last.preSess].loop[s] = "done"

\* C4: a session that the explicit CLOSE tore down never gets a port_closed
\* event: its loops only run or terminate, and the CLOSE answers close OK
C4_NoEventWhenCloseWins ==
  /\ \A e \in 1..Len(sess) :
       sess[e].closedBy = "close" =>
         /\ sess[e].events = 0
         /\ \A s \in Sides : sess[e].loop[s] \in {"running", "done"}
  /\ (Returned /\ last.cmd = "CLOSE" /\ last.result = "OK")
       => (resp.ev = "close" /\ resp.err = "" /\ sess[last.preConn].closedBy = "close")

\* C4 witness: after a CLOSE that won, a copy loop has seen its error and
\* terminated while the other one is still blocked
C4_Witness ==
  \E e \in 1..Len(sess) :
    /\ sess[e].closedBy = "close"
    /\ sess[e].loop["p2t"] = "done"
    /\ sess[e].loop["t2p"] = "running"

\* C5: an OPEN whose port open succeeded and whose TCP dial failed has, when
\* it returns and before any of its response is written, closed the handle
\* it opened; the session is Closed, the opened flag false, no copy loop was
\* started; and an OPEN is rejected as already opened only if the session
\* was Open when it was read
C5_DialFailureReleasesPort ==
  /\ (Returned /\ last.cmd = "OPEN" /\ last.preState = "Closed"
        /\ last.openOk /\ ~last.dialOk)
       => /\ last.result = "ConnectFailed"
          /\ resp.ev = "open" /\ resp.err = "ConnectFailed"
          /\ last.newPort \in 1..Len(ports)
          /\ ports[last.newPort].closes = 1
          /\ state = "Closed" /\ ~openedPort /\ clientConn = 0
          /\ Len(sess) = last.preSess
          /\ \A e \in 1..Len(sess) : sess[e].port # last.newPort
  /\ (Returned /\ last.cmd = "OPEN" /\ last.result = "AlreadyOpen")
       => last.preState = "Open"

\* C5 witness: an OPEN has succeeded on the second handle after the first
\* handle was opened, and closed again, by an OPEN whose dial failed
C5_Witness ==
  /\ dpc = "respond" /\ last.cmd = "OPEN" /\ last.result = "OK"
  /\ last.newPort = 2
  /\ Len(sess) = 1
  /\ ports[1].closes = 1

\* C6: an OPEN read while the session is Open answers "port already opened"
\* and changes neither the stored handle, the TCP connection, the opened
\* flag, the sessions and their loops, the driver's ports nor any selected
\* value, and makes no driver call
C6_OpenWhileOpenIsNoop ==
  [][ (CanRead /\ last'.cmd = "OPEN" /\ state = "Open")
        => /\ resp' = [ev |-> "open", err |-> "AlreadyOpen", ep |-> clientConn]
           /\ calls' = << >>
           /\ UNCHANGED << selected, openedPort, serialPort, ports, state,
                           clientConn, sess >> ]_vars

\* C6 witness: an OPEN read in state Open has returned AlreadyOpen and the
\* session is still Open
C6_Witness ==
  /\ dpc = "respond" /\ last.cmd = "OPEN" /\ last.result = "AlreadyOpen"
  /\ last.openOk
  /\ state = "Open"

\* C7: the session has a live port handle and a TCP connection exactly when
\* it is Open (one of each, none when Closed), at most one handle is live,
\* and SetMode, SetDTR, SetRTS and Close are only ever called on a handle
\* that was opened and not yet closed
C7_HandlesOwnedIffOpen ==
  /\ state = "Open" =>
       /\ openedPort
       /\ LivePorts = {serialPort}
       /\ LiveConns = {clientConn}
       /\ sess[clientConn].port = serialPort
  /\ state = "Closed" =>
       /\ ~openedPort /\ clientConn = 0
       /\ LivePorts = {} /\ LiveConns = {}
  /\ Cardinality(LivePorts) <= 1
  /\ \A i \in 1..Len(calls) :
       calls[i].op \in {"SetMode", "SetDTR", "SetRTS", "Close"} => calls[i].live

\* C8: every parameter of the descriptor has a selected value that is
\* non-empty and one of the parameter's values
C8_SelectedIsAllowed ==
  /\ DOMAIN selected = Keys(variant)
  /\ \A n \in DOMAIN selected :
       selected[n] # "" /\ selected[n] \in Values(variant, n)

\* C8 witness: a Configure of dtr was rolled back and has returned
C8_Witness ==
  /\ dpc = "respond"
  /\ last.cmd = "CONFIGURE" /\ last.name = "dtr"
  /\ last.result = "ApplyFailed"
  /\ selected = last.preSel

\* C9: with a working port and listener every OPEN read in state Closed
\* returns OK and every CLOSE read in state Open returns OK, and after such
\* a CLOSE the opened flag is false, no handle and no connection is live,
\* and no copy loop is left that belongs to a session not torn down
C9_OpenCloseCyclesSucceed ==
  /\ (Returned /\ last.cmd = "OPEN" /\ last.preState = "Closed"
        /\ last.openOk /\ last.dialOk)
       => (last.result = "OK" /\ resp.ev = "open" /\ resp.err = "")
  /\ (Returned /\ last.cmd = "CLOSE" /\ last.preState = "Open")
       => /\ last.result = "OK" /\ resp.ev = "close" /\ resp.err = ""
          /\ state = "Closed" /\ ~openedPort /\ clientConn = 0
          /\ LivePorts = {} /\ LiveConns = {}
          /\ \A e \in 1..Len(sess) : sess[e].closing

\* C9 witness: the CLOSE of the second OPEN/CLOSE pair has returned OK, the
\* first session having been closed by CLOSE as well
C9_Witness ==
  /\ Returned /\ last.cmd = "CLOSE" /\ last.result = "OK"
  /\ Len(sess) >= 2
  /\ \A e \in 1..Len(sess) : sess[e].closedBy = "close"
  /\ Len(ports) = Len(sess)

\* C10: at most one writer is in the middle of a message, it is the owner of
\* the gate, and what is on the output channel after the last complete
\* message is nothing, or the beginning of that writer's message
C10_OneWriterAtATime ==
  /\ Cardinality(Writing) <= 1
  /\ Writing = {} => (gate = NoWriter /\ out = << >>)
  /\ \A w \in Writing :
       /\ gate = w
       /\ Len(out) = 1 /\ out[1].w = w /\ out[1].part = "begin"

\* C10 witness: the Bridge-failure path has a port_closed event to write
\* and waits for the gate while the dispatcher is writing a response
C10_Witness ==
  /\ dpc = "writing"
  /\ \E e \in 1..Len(sess), s \in Sides : sess[e].loop[s] = "emit"

\* 6: the event type of the response to each command
EventOf(c) ==
  CASE c = "HELLO" -> "hello"
    [] c = "DESCRIBE" -> "describe"
    [] c = "CONFIGURE" -> "configure"
    [] c = "OPEN" -> "open"
    [] c = "CLOSE" -> "close"
    [] c = "QUIT" -> "quit"
    [] OTHER -> "command_error"

\* C11: every command line read gets exactly one response, written before the
\* next line is read. A line is read only when the dispatcher is idle, no
\* command is unanswered and the dispatcher is not writing; the command being
\* handled is dropped only by the step that completes its response, whose
\* event type is the command's; the dispatcher writes only the two parts of
\* that one response; and a copy loop starts its port_closed only when the
\* output holds no incomplete message, and adds nothing while the dispatcher
\* is in the middle of one
C11_OneResponsePerCommand ==
  [][ /\ (last.cmd = "none" /\ last'.cmd # "none")
          => (dpc = "idle" /\ resp = NoMsg /\ gate # Disp /\ dpc' \in {"apply", "respond"})
      /\ (last.cmd # "none" /\ last'.cmd # last.cmd)
          => /\ last'.cmd = "none"
             /\ dpc = "writing" /\ dpc' \in {"idle", "exited"}
             /\ gate = Disp /\ gate' = NoWriter
             /\ out = << Part(Disp, resp, "begin") >> /\ out' = << >>
             /\ resp.ev = EventOf(last.cmd)
      /\ (dpc' = "writing" /\ dpc # "writing")
          => (dpc = "respond" /\ out = << >> /\ out' = << Part(Disp, resp, "begin") >>)
      /\ (dpc = "writing" /\ dpc' = "writing") => out' = out
      /\ dpc' \in {"idle", "exited"} => (last'.cmd = "none" /\ resp' = NoMsg)
      /\ dpc' \in {"respond", "writing"}
          => (last'.cmd # "none" /\ resp'.ev = EventOf(last'.cmd))
      /\ \A e \in 1..Len(sess) : \A s \in Sides :
           (sess'[e].loop[s] = "writing" /\ sess[e].loop[s] # "writing")
             => (out = << >> /\ gate = NoWriter /\ dpc # "writing")
    ]_vars

\* C11 witness: the response to DESCRIBE waits while a copy loop is in the
\* middle of its port_closed event
C11_Witness ==
  /\ dpc = "respond"
  /\ last.cmd = "DESCRIBE"
  /\ \E e \in 1..Len(sess) : \E s \in Sides : sess[e].loop[s] = "writing"

\* C12: DESCRIBE reports, for every parameter, the value of the most recent
\* CONFIGURE that returned success, the default when there was none
\* (`committed`), never a value a failed or rolled-back CONFIGURE staged; the
\* step that serves DESCRIBE changes neither the descriptor nor the session;
\* outside a Configure that is between staging and return the descriptor is
\* the committed one; and the committed values change only with a CONFIGURE
\* that reports success, to its value
C12_DescribeShowsCommitted ==
  [][ /\ (last.cmd = "none" /\ last'.cmd = "DESCRIBE")
          => /\ resp'.ev = "describe" /\ resp'.err = ""
             /\ resp'.desc = committed
             /\ UNCHANGED << selected, committed, openedPort, serialPort, ports,
                             state, clientConn, sess, version >>
      /\ (last.cmd = "DESCRIBE" /\ last'.cmd = "DESCRIBE")
          => (resp' = resp /\ selected' = selected)
      /\ dpc' # "apply" => selected' = committed'
      /\ committed' # committed
          => /\ last'.cmd = "CONFIGURE" /\ last'.result = "OK"
             /\ resp' = [ev |-> "configure", err |-> "", ep |-> resp'.ep]
             /\ committed' = [committed EXCEPT ![last'.name] = last'.value]
    ]_vars

\* C12 witness: DESCRIBE while Open reports a descriptor that differs from
\* the defaults
C12_Witness ==
  /\ Returned
  /\ last.cmd = "DESCRIBE"
  /\ last.preState = "Open"
  /\ resp.desc # DefaultSelected(variant)
  /\ resp.desc = committed

\* the driver's parity code each allowed parity value of the rts/dtr revision
\* stands for
ParityCode(v) ==
  CASE v = "none" -> "NoParity"
    [] v = "even" -> "EvenParity"
    [] v = "odd" -> "OddParity"
    [] v = "mark" -> "MarkParity"
    [] OTHER -> "SpaceParity"

\* the driver's stop bits code each allowed stop_bits value stands for
StopBitsCode(v) ==
  CASE v = "1" -> "OneStopBit"
    [] v = "1.5" -> "OnePointFiveStopBits"
    [] OTHER -> "TwoStopBits"

\* C13: in the rts/dtr revision the line settings of the live handle, as Open
\* set them and a later SetMode changed them, carry the driver code that the
\* selected parity stands for and the one that the selected stop_bits stands
\* for, so that no allowed value is left at the zero code of another value
C13_ModeMatchesSelected ==
  (variant = "rtsdtr" /\ openedPort /\ Live(ports, serialPort) /\ dpc # "apply")
    => /\ ports[serialPort].mode.parity = ParityCode(selected["parity"])
       /\ ports[serialPort].mode.stop = StopBitsCode(selected["stop_bits"])

\* C14: QUIT is served in every state and always reports success. The step
\* that serves it leaves the session Closed with no live handle and no live
\* connection: from Open by the teardown of CLOSE (one Close call on the live
\* handle, the session marked closed by QUIT), from Closed without a driver
\* call. A session QUIT tore down never gets a port_closed event, the only
\* message written for QUIT is the quit event, and when it is complete the
\* process has terminated: no step follows
C14_QuitTearsDownAndStops ==
  [][ /\ (last.cmd = "none" /\ last'.cmd = "QUIT")
          => /\ resp' = [ev |-> "quit", err |-> "", ep |-> resp'.ep]
             /\ last'.result = "OK"
             /\ state' = "Closed" /\ ~openedPort' /\ clientConn' = 0
             /\ LivePorts' = {} /\ LiveConns' = {}
             /\ state = "Open"
                  => /\ sess'[clientConn].closedBy = "quit"
                     /\ sess'[clientConn].connCloses = 1
                     /\ Len(calls') = 1
                     /\ calls'[1].op = "Close" /\ calls'[1].h = serialPort
                     /\ calls'[1].live
             /\ state = "Closed" => (calls' = << >> /\ sess' = sess /\ ports' = ports)
      /\ \A e \in 1..Len(sess') :
           sess'[e].closedBy = "quit"
             => /\ sess'[e].events = 0
                /\ \A s \in Sides : sess'[e].loop[s] \in {"running", "done"}
      /\ (last'.cmd = "QUIT" /\ dpc' = "writing")
          => out' = << Part(Disp, [ev |-> "quit", err |-> "", ep |-> resp'.ep], "begin") >>
      /\ (last.cmd = "QUIT" /\ last'.cmd # "QUIT")
          => (dpc' = "exited" /\ gate' = NoWriter /\ out' = << >>)
      /\ dpc # "exited"
    ]_vars

\* C14 witness: the process has terminated after a QUIT that tore an Open
\* session down
C14_Witness ==
  /\ dpc = "exited"
  /\ \E e \in 1..Len(sess) : sess[e].closedBy = "quit" /\ sess[e].connCloses = 1
  /\ LivePorts = {}

\* C15: a line the dispatcher does not serve (unknown verb or malformed
\* arguments) gets one command_error event with the error flag; the step that
\* serves it changes neither the session state nor the handles nor the
\* selected values and makes no driver call; and when the event is written
\* the dispatcher is idle again, ready for the next line
C15_InvalidLineOnlyAnswers ==
  [][ /\ (last.cmd = "none" /\ last'.cmd = "UNKNOWN")
          => /\ resp'.ev = "command_error" /\ resp'.err # ""
             /\ calls' = << >>
             /\ UNCHANGED << selected, committed, openedPort, serialPort, ports,
                             state, clientConn, sess, version, pend >>
      /\ (last.cmd = "UNKNOWN" /\ last'.cmd = "UNKNOWN") => resp' = resp
      /\ (last.cmd = "UNKNOWN" /\ last'.cmd # "UNKNOWN")
          => /\ dpc = "writing" /\ dpc' = "idle"
             /\ out = << Part(Disp, resp, "begin") >> /\ resp.ev = "command_error"
             /\ CanRead'
    ]_vars

\* C15 witness: an unknown verb is being answered while the session is Open
C15_Witness ==
  /\ dpc = "writing"
  /\ last.cmd = "UNKNOWN"
  /\ last.name = "verb"
  /\ state = "Open"
  /\ openedPort
  /\ selected # DefaultSelected(variant)

\* C16: for every requested version r, HELLO r succeeds and the hello event
\* carries the smaller of r and the highest supported version, which is the
\* version the session records; the step changes neither the Closed/Open
\* state nor the handles nor the selected values
C16_HelloNegotiatesMin ==
  [][ (last.cmd = "none" /\ last'.cmd = "HELLO")
        => /\ resp'.ev = "hello" /\ resp'.err = ""
           /\ last'.result = "OK"
           /\ resp'.ver <= last'.req /\ resp'.ver <= SupportedVersion
           /\ resp'.ver \in {last'.req, SupportedVersion}
           /\ version' = resp'.ver
           /\ calls' = << >>
           /\ UNCHANGED << selected, committed, openedPort, serialPort, ports,
                           state, clientConn, sess, pend >>
    ]_vars

\* C16 witness: a client asks for version 3 while the session is Open and is
\* answered with version 1
C16_Witness ==
  /\ Returned
  /\ last.cmd = "HELLO"
  /\ last.req = 3
  /\ resp.ev = "hello"
  /\ resp.ver = 1
  /\ state = "Open"

\* C17: under fair scheduling a CLOSE that tore an Open session down always
\* completes: its response is written to the end and the dispatcher is idle
\* again, and both copy loops of the session terminate, whoever else wants
\* the guard or the output gate
C17_CloseCompletes ==
  /\ (dpc = "respond" /\ last.cmd = "CLOSE" /\ last.result = "OK") ~> (dpc = "idle")
  /\ \A e \in 1..MaxHandles :
       (e \in 1..Len(sess) /\ sess[e].closedBy = "close")
         ~> (e \in 1..Len(sess) /\ \A s \in Sides : sess[e].loop[s] = "done")

\* C17 witness: both copy loops of a session CLOSE tore down have terminated
\* and the dispatcher has written the close response
C17_Witness ==
  /\ dpc = "idle"
  /\ state = "Closed"
  /\ \E e \in 1..Len(sess) :
       /\ sess[e].closedBy = "close"
       /\ \A s \in Sides : sess[e].loop[s] = "done"

\* the driver calls of Configure among the calls since the command was read
ConfigureCalls == SelectSeq(calls, LAMBDA c : c.op \in {"SetMode", "SetDTR", "SetRTS"})

\* C18: a Configure that has returned made a driver call only if the port was
\* open when it was called and the name and value passed validation, and then
\* exactly one, on the stored handle: for baudrate, parity, bits and
\* stop_bits SetMode with the mode built from the values with the new one
\* staged, for dtr only SetDTR and for rts only SetRTS (in the revision that
\* has them), each with the staged value; when the port was closed, the name
\* unknown or the value not allowed it made none. No other command makes
\* such a call
C18_ConfigureOneDriverCall ==
  /\ (Returned /\ last.cmd = "CONFIGURE")
       => LET n == last.name
              staged == [last.preSel EXCEPT ![n] = last.value]
              valid == n \in Keys(variant) /\ last.value \in Values(variant, n)
          IN IF ~(valid /\ last.preOpened)
               THEN ConfigureCalls = << >>
               ELSE /\ Len(ConfigureCalls) = 1
                    /\ ConfigureCalls[1].h = last.prePort
                    /\ IF variant = "rtsdtr" /\ n = "dtr"
                         THEN /\ ConfigureCalls[1].op = "SetDTR"
                              /\ ConfigureCalls[1].arg.on = (staged["dtr"] = "on")
                       ELSE IF variant = "rtsdtr" /\ n = "rts"
                         THEN /\ ConfigureCalls[1].op = "SetRTS"
                              /\ ConfigureCalls[1].arg.on = (staged["rts"] = "on")
                       ELSE /\ ConfigureCalls[1].op = "SetMode"
                            /\ ConfigureCalls[1].arg.mode = getMode(variant, staged)
  /\ last.cmd # "CONFIGURE" => ConfigureCalls = << >>
  /\ dpc = "apply" => ConfigureCalls = << >>

\* C18 witness: CONFIGURE rts off on an open port has returned after one
\* SetRTS call that succeeded
C18_Witness ==
  /\ Returned
  /\ last.cmd = "CONFIGURE"
  /\ last.name = "rts"
  /\ last.preOpened
  /\ last.result = "OK"
  /\ Len(ConfigureCalls) = 1
  /\ ConfigureCalls[1].op = "SetRTS"
  /\ ports[serialPort].mode.rts = "off"

\* C19: in the rts/dtr revision an Open whose serial.Open succeeded has made
\* exactly the calls Open, ResetInputBuffer, ResetOutputBuffer on the new
\* handle, in this order, before it returned; whether the resets succeed or
\* fail, Open returns success, so that the command fails only when the TCP
\* dial does; every session's port had both resets before its copy loops
\* existed. An Open whose serial.Open failed attempted no reset and left the
\* opened flag false and the stored handle as it was, and so did an Open on
\* an opened port, with no driver call at all
C19_ResetsAfterOpenNeverFail ==
  variant = "rtsdtr" =>
    /\ (Returned /\ last.cmd = "OPEN")
         => IF last.preOpened
              THEN last.result = "AlreadyOpen" /\ last.newPort = 0
            ELSE IF ~last.openOk
              THEN /\ last.result = "OpenFailed"
                   /\ calls = << [op |-> "Open", h |-> 0, live |-> FALSE] >>
                   /\ ~openedPort
                   /\ serialPort = last.prePort
                   /\ last.newPort = 0
            ELSE /\ last.result = (IF last.dialOk THEN "OK" ELSE "ConnectFailed")
                 /\ Len(calls) >= 3
                 /\ calls[1] = [op |-> "Open", h |-> last.newPort, live |-> TRUE]
                 /\ calls[2] = [op |-> "ResetInputBuffer", h |-> last.newPort,
                                live |-> TRUE, ok |-> ~faulty]
                 /\ calls[3] = [op |-> "ResetOutputBuffer", h |-> last.newPort,
                                live |-> TRUE, ok |-> ~faulty]
                 /\ \A i \in 4..Len(calls) : calls[i].op = "Close"
                 /\ ports[last.newPort].resets = 2
    /\ \A e \in 1..Len(sess) : ports[sess[e].port].resets = 2
    /\ \A h \in 1..Len(ports) : ports[h].resets = 2

\* C19 witness: OPEN has returned success on a driver whose two buffer resets
\* returned an error
C19_Witness ==
  /\ variant = "rtsdtr"
  /\ faulty
  /\ Returned
  /\ last.cmd = "OPEN"
  /\ last.result = "OK"
  /\ Len(calls) = 3
  /\ ~calls[2].ok
  /\ ~calls[3].ok
  /\ openedPort
  /\ serialPort = last.newPort

\* C20: the handler's Close on a port that is not opened returns 'port
\* already closed', makes no driver call and changes nothing; on an opened
\* port it calls the driver's Close once on the stored handle, clears the
\* opened flag and returns success whatever the driver's Close returns. A
\* CLOSE command read while Closed answers with that error and leaves the
\* state Closed; one read while Open ends Closed with a success response,
\* also when the driver's Close returned an error
C20_CloseResults ==
  /\ LET c == Close(openedPort, serialPort, ports) IN
       IF ~openedPort
         THEN /\ c.err = "AlreadyClosed"
              /\ c.calls = << >>
              /\ c.ports = ports /\ ~c.openedPort /\ c.serialPort = serialPort
         ELSE /\ c.err = ""
              /\ ~c.openedPort
              /\ Len(c.calls) = 1
              /\ c.calls[1].op = "Close" /\ c.calls[1].h = serialPort
              /\ c.calls[1].ok = (Live(ports, serialPort) /\ ~faulty)
  /\ (Returned /\ last.cmd = "CLOSE")
       => IF last.preState = "Closed"
            THEN /\ last.result = "AlreadyClosed"
                 /\ resp = [ev |-> "close", err |-> "AlreadyClosed", ep |-> resp.ep]
                 /\ calls = << >>
                 /\ state = "Closed" /\ ~openedPort
                 /\ serialPort = last.prePort
            ELSE /\ last.result = "OK"
                 /\ resp = [ev |-> "close", err |-> "", ep |-> resp.ep]
                 /\ calls = << [op |-> "Close", h |-> last.prePort, live |-> TRUE,
                                ok |-> ~faulty] >>
                 /\ state = "Closed" /\ ~openedPort
                 /\ ports[last.prePort].closes = 1

\* C20 witness: CLOSE on an Open session has answered success although the
\* driver's Close returned an error
C20_Witness ==
  /\ faulty
  /\ Returned
  /\ last.cmd = "CLOSE"
  /\ last.preState = "Open"
  /\ last.result = "OK"
  /\ resp.err = ""
  /\ Len(calls) = 1
  /\ ~calls[1].ok
  /\ state = "Closed"

\* C21: the reason of a session the Bridge tore down is the side whose error
\* its winning loop got, and the text of the port_closed event being written
\* is the message of that side: 'serial port disappeared!' for the port,
\* 'lost TCP/IP connection with the client!' for the connection. Once a
\* session is closing, no step changes its reason, its cause or who closed it,
\* whatever errors its loops get afterwards, and it never has more than one
\* port_closed event
C21_ReasonNamesFailingSide ==
  [][ \A e \in 1..Len(sess') :
        /\ sess'[e].closedBy = "bridge"
             => (sess'[e].cause \in Reasons /\ sess'[e].reason = sess'[e].cause)
        /\ sess'[e].closedBy # "bridge" => sess'[e].events = 0
        /\ sess'[e].events <= 1
        /\ (e \in 1..Len(sess) /\ sess[e].closing)
             => /\ sess'[e].reason = sess[e].reason
                /\ sess'[e].cause = sess[e].cause
                /\ sess'[e].closedBy = sess[e].closedBy
        /\ \A s \in Sides :
             sess'[e].loop[s] = "writing"
               => out' = << [w |-> LoopWriter(e, s), ev |-> "port_closed",
                             err |-> IF sess'[e].cause = "port"
                                       THEN "serial port disappeared!"
                                       ELSE "lost TCP/IP connection with the client!",
                             ep |-> e, part |-> "begin"] >>
    ]_vars

\* C21 witness: the loop that copies from the connection to the port got an
\* error on the port and is writing the port-disappeared message, after the
\* other loop terminated on the error the teardown caused
C21_Witness ==
  \E e \in 1..Len(sess) :
    /\ sess[e].closedBy = "bridge"
    /\ sess[e].cause = "port"
    /\ sess[e].loop["t2p"] = "writing"
    /\ sess[e].loop["p2t"] = "done"
    /\ sess[e].events = 1

\* ---------------------------------- the revision with package-level state
\* src/unnamed/part_000 keeps the descriptor and the port in package-level
\* variables: `openedPort` here is "var openedPort serial.Port is not nil",
\* `serialPort` the handle it holds. Its descriptor is the one of main.go,
\* and its Close is the Close above, on the package-level variable.

\* serial.Parity(i) of go.bug.st/serial
ParityOfInt(i) ==
  CASE i = 0 -> "NoParity" [] i = 1 -> "OddParity" [] i = 2 -> "EvenParity"
    [] i = 3 -> "MarkParity" [] OTHER -> "SpaceParity"

\* serial.StopBits(i) of go.bug.st/serial
StopBitsOfInt(i) ==
  CASE i = 0 -> "OneStopBit" [] i = 1 -> "OnePointFiveStopBits"
    [] OTHER -> "TwoStopBits"

\* getMode of part_000: every field through strconv.Atoi, errors dropped
getModeGlobal(sel) ==
  [baud |-> Atoi(sel["baudrate"]), parity |-> ParityOfInt(Atoi(sel["parity"])),
   bits |-> Atoi(sel["bits"]), stop |-> StopBitsOfInt(Atoi(sel["stop_bits"])),
   dtr |-> "default", rts |-> "default"]

\* the process of part_000 before the first command line
InitGlobal ==
  /\ variant = "global"
  /\ selected = DefaultSelected(variant)
  /\ openedPort = FALSE
  /\ serialPort = 0
  /\ ports = << >>
  /\ state = "Closed"
  /\ clientConn = 0
  /\ sess = << >>
  /\ dpc = "idle"
  /\ pend = NoPend
  /\ resp = NoMsg
  /\ gate = NoWriter
  /\ out = << >>
  /\ last = NoCmd
  /\ calls = << >>
  /\ version = 0
  /\ faulty = FALSE
  /\ committed = DefaultSelected(variant)

\* Open of part_000: `openedPort, err := serial.Open(..)` declares a local
\* openedPort, so the package-level variable keeps its value; ret is the
\* handle returned to the caller
OpenGlobal(openOk) ==
  IF openedPort
    THEN [err |-> "AlreadyOpen", openedPort |-> openedPort,
          serialPort |-> serialPort, ret |-> 0, ports |-> ports,
          calls |-> << >>]
  ELSE IF ~openOk
    THEN [err |-> "OpenFailed", openedPort |-> openedPort,
          serialPort |-> serialPort, ret |-> 0, ports |-> ports,
          calls |-> << [op |-> "Open", h |-> 0, live |-> FALSE] >>]
  ELSE LET h == Len(ports) + 1 IN
       [err |-> "", openedPort |-> openedPort, serialPort |-> serialPort,
        ret |-> h,
        ports |-> Append(ports, [closes |-> 0, mode |-> getModeGlobal(selected),
                                 resets |-> 0]),
        calls |-> << [op |-> "Open", h |-> h, live |-> TRUE] >>]

\* Configure of part_000, whole: lookup, check of the value, Selected = value,
\* SetMode when the package-level port is set; no rollback. ok is the outcome
\* of SetMode on a live handle
CmdConfigureGlobal(n, v, ok) ==
  /\ CanRead
  /\ LET e == ConfigureCheck(n, v)
         good == ok /\ Live(ports, serialPort)
         r == IF e # "" THEN e
              ELSE IF openedPort /\ ~good THEN "ApplyFailed" ELSE ""
     IN /\ selected' = IF e = "" THEN [selected EXCEPT ![n] = v] ELSE selected
        /\ calls' = IF e = "" /\ openedPort
                      THEN << [op |-> "SetMode", h |-> serialPort,
                               live |-> Live(ports, serialPort),
                               arg |-> [k |-> "mode",
                                        mode |-> getModeGlobal(selected'),
                                        on |-> FALSE]] >>
                      ELSE << >>
        /\ ports' = IF e = "" /\ openedPort /\ good
                      THEN [ports EXCEPT ![serialPort].mode = getModeGlobal(selected')]
                      ELSE ports
        /\ committed' = IF r = "" THEN [committed EXCEPT ![n] = v] ELSE committed
        /\ resp' = Msg("configure", r)
        /\ last' = [Begin("CONFIGURE", n, v, FALSE, FALSE)
                      EXCEPT !.result = IF r = "" THEN "OK" ELSE r,
                             !.applyOk = (e = "" /\ openedPort /\ good)]
  /\ dpc' = "respond"
  /\ UNCHANGED << variant, version, faulty, openedPort, serialPort, state,
                  clientConn, sess, pend, gate, out >>

\* 4.3 OPEN with the handler of part_000: AlreadyOpen from Open; from Closed
\* the handler's Open, the dial, the handler's Close when the dial fails,
\* the new session around the handle Open returned
CmdOpenGlobal(openOk, dialOk) ==
  /\ CanRead
  /\ state = "Open" \/ ~openOk \/ Len(ports) < MaxOpens
  /\ LET r == IF state = "Open"
                THEN [err |-> "AlreadyOpen", openedPort |-> openedPort,
                      serialPort |-> serialPort, ret |-> 0, ports |-> ports,
                      calls |-> << >>]
                ELSE OpenGlobal(openOk)
     IN
       IF r.err # ""
         THEN /\ UNCHANGED << openedPort, serialPort, ports, state, clientConn, sess >>
              /\ calls' = r.calls
              /\ resp' = Msg("open", r.err)
              /\ last' = [Begin("OPEN", "", "", openOk, dialOk) EXCEPT !.result = r.err]
       ELSE IF ~dialOk
         THEN LET c == Close(r.openedPort, r.serialPort, r.ports) IN
              /\ openedPort' = c.openedPort
              /\ serialPort' = c.serialPort
              /\ ports' = c.ports
              /\ calls' = r.calls \o c.calls
              /\ UNCHANGED << state, clientConn, sess >>
              /\ resp' = Msg("open", "ConnectFailed")
              /\ last' = [Begin("OPEN", "", "", openOk, dialOk)
                            EXCEPT !.result = "ConnectFailed", !.newPort = r.ret]
         ELSE /\ openedPort' = r.openedPort
              /\ serialPort' = r.serialPort
              /\ ports' = r.ports
              /\ calls' = r.calls
              /\ sess' = Append(sess, NewSession(r.ret))
              /\ clientConn' = Len(sess) + 1
              /\ state' = "Open"
              /\ resp' = [ev |-> "open", err |-> "", ep |-> Len(sess) + 1]
              /\ last' = [Begin("OPEN", "", "", openOk, dialOk)
                            EXCEPT !.result = "OK", !.newPort = r.ret]
  /\ dpc' = "respond"
  /\ UNCHANGED << variant, version, faulty, committed, selected, pend, gate, out >>

\* CONFIGURE, OPEN and CLOSE with the copy loops, on the handler of part_000
NextGlobal ==
  \/ \E c \in CfgInputs, ok \in BOOLEAN : CmdConfigureGlobal(c[1], c[2], ok)
  \/ \E oo \in BOOLEAN, dd \in BOOLEAN : CmdOpenGlobal(oo, dd)
  \/ CmdClose
  \/ DispBegin
  \/ DispEnd
  \/ Bridge(MaxOpens)

SpecGlobal == InitGlobal /\ [][NextGlobal]_vars

\* C22: in the revision with the package-level openedPort, a successful Open
\* records the handle it opened in that variable, so the Close that follows
\* closes that handle and leaves no handle open, and a Configure accepted
\* while a session is open applies the mode to its handle
C22_GlobalPortRecorded ==
  Returned =>
    /\ (last.cmd = "OPEN" /\ last.result = "OK")
         => (openedPort /\ serialPort = last.newPort)
    /\ (last.cmd = "CLOSE" /\ last.result = "OK")
         => /\ \E i \in 1..Len(calls) :
                 calls[i].op = "Close" /\ calls[i].h = last.prePort /\ calls[i].live
            /\ LivePorts = {}
    /\ (last.cmd = "CONFIGURE" /\ last.result = "OK" /\ last.preState = "Open")
         => \E i \in 1..Len(calls) : calls[i].op = "SetMode" /\ calls[i].live

\* the copy loops that can still copy: running, in a session not torn down
Copying ==
  {w \in {LoopWriter(e, s) : e \in 1..Len(sess), s \in Sides} :
     sess[w.e].loop[w.k] = "running" /\ ~sess[w.e].closing}

C24_PanicUnreachable ==
  /\ dpc # "panicked"
  /\ variant = "rtsdtr"
       => /\ DOMAIN selected
               = {"baudrate", "parity", "bits", "stop_bits", "rts", "dtr"}
          /\ \A n \in DOMAIN selected :
               ApplyCall(n) \in {"SetMode", "SetDTR", "SetRTS"}
          /\ dpc = "apply"
               => /\ pend.name \in DOMAIN selected
                  /\ ApplyCall(pend.name) # "panic"

\* a Configure of rts on an open port has gone through the SetRTS case
C24_Witness ==
  /\ variant = "rtsdtr"
  /\ Returned
  /\ last.cmd = "CONFIGURE"
  /\ last.name = "rts"
  /\ last.preOpened
  /\ last.result = "OK"
  /\ \E i \in 1..Len(calls) : calls[i].op = "SetRTS" /\ calls[i].live

\* NewSerialMonitor: Label of each parameter
Label(n) ==
  CASE n = "baudrate" -> "Baudrate" [] n = "parity" -> "Parity"
    [] n = "bits" -> "Data bits" [] n = "stop_bits" -> "Stop bits"
    [] n = "rts" -> "RTS" [] OTHER -> "DTR"

\* d.serialSettings: the whole descriptor
Descriptor ==
  [protocol |-> "serial",
   params |-> [n \in DOMAIN selected |->
                 [label |-> Label(n), type |-> "enum",
                  values |-> Values(variant, n), selected |-> selected[n]]]]

\* a step of Configure: from the read of the line to the driver call, or
\* from the driver call to the return
ConfigureStep ==
  \/ dpc = "idle" /\ dpc' # "idle" /\ last'.cmd = "CONFIGURE"
  \/ dpc = "apply" /\ dpc' # "apply"

\* C25: Configure(n, v) changes nothing but the selected value of n: every
\* step of it leaves the other selected values, the allowed values, labels,
\* types, protocol name and key set of the descriptor, d.openedPort and
\* d.serialPort as they are, and when it returns success the descriptor is
\* the one before the call with v selected for n; every step that is not
\* Configure's (Open, Close, the teardown by the Bridge) leaves all selected
\* values as they are
C25_ConfigureFrame ==
  [][ /\ ConfigureStep
           => /\ UNCHANGED << openedPort, serialPort >>
              /\ DOMAIN Descriptor'.params = DOMAIN Descriptor.params
              /\ Descriptor'.protocol = Descriptor.protocol
              /\ \A m \in DOMAIN Descriptor.params :
                   /\ Descriptor'.params[m].label = Descriptor.params[m].label
                   /\ Descriptor'.params[m].type = Descriptor.params[m].type
                   /\ Descriptor'.params[m].values = Descriptor.params[m].values
                   /\ m # last'.name
                        => Descriptor'.params[m].selected
                             = Descriptor.params[m].selected
      /\ (ConfigureStep /\ last'.result = "OK")
           => /\ last'.name \in DOMAIN selected
              /\ selected' = [last'.preSel EXCEPT ![last'.name] = last'.value]
      /\ ~ConfigureStep => selected' = selected
    ]_vars

\* Configure dtr off has returned success on an open port: dtr is off, rts
\* and the mode parameters are the ones before, the port is still open
C25_Witness ==
  /\ variant = "rtsdtr"
  /\ Returned
  /\ last.cmd = "CONFIGURE"
  /\ last.name = "dtr"
  /\ last.result = "OK"
  /\ last.preOpened
  /\ last.preSel["dtr"] = "on"
  /\ selected = [last.preSel EXCEPT !["dtr"] = "off"]
  /\ selected["rts"] = "on"
  /\ openedPort
  /\ serialPort = last.prePort
  /\ Live(ports, serialPort)

====
